---------------------------- MODULE Spec2Model ----------------------------
(***************************************************************************)
(* Monthly rollup and reconciliation of the stock-researcher data          *)
(* pipeline (src/data-pipeline).                                           *)
(*                                                                         *)
(*   SpecExtract  : load_excel_max_close (validate_correct.py), one step   *)
(*                  per row of the reference grid.                         *)
(*   SpecRollup   : aggregate_to_monthly (fetch_historical.py) called on   *)
(*                  a caller's frame of daily bars.                        *)
(*   SpecValidate : validate_ticker (validate_correct.py and               *)
(*                  full_validation.py) called on a sheet and a monthly    *)
(*                  frame.                                                 *)
(*   SpecCompare  : compare_values (validate_data.py).                     *)
(*   SpecLoad     : fetch_and_load_prices (load_to_postgres.py), one step  *)
(*                  per ticker, on the table monthly_prices.               *)
(*   SpecAgree    : aggregate_to_monthly and fetch_and_load_prices on the  *)
(*                  same bars of one ticker.                               *)
(*                                                                         *)
(* Prices are integers (an integer number of price units); the float       *)
(* arithmetic of the comparison is modelled as exact arithmetic on         *)
(* fractions, with NaN and infinity as separate outcomes.                  *)
(***************************************************************************)
EXTENDS Integers, Sequences, FiniteSets, TLC

VARIABLES
    grid,             \* the sheet read by pd.read_excel(header=None)
    idx,              \* index of the next row of df.iterrows()
    in_data_section,  \* load_excel_max_close: in_data_section
    data_rows,        \* load_excel_max_close: data_rows
    scan_pc,          \* "scan" | "returned" | "raised" | "idle"
    daily,            \* the caller's frame of daily bars
    monthly,          \* the frame the last aggregate_to_monthly call returned
    prev_monthly,     \* the frame the call before it returned
    monthly_df,       \* validate_ticker: the monthly frame read from the CSV
    ticker,           \* validate_ticker: ticker
    variant,          \* which script's validate_ticker runs
    result,           \* what validate_ticker returned (or that it raised)
    cmp,              \* the last compare_values call and its result
    store,            \* the committed rows of the table monthly_prices
    load_rows,        \* fetch_and_load_prices: rows of the last ticker
    load_status,      \* how the last ticker of fetch_and_load_prices ended
    txn               \* the connection's transaction: "ok" | "aborted"

vars == <<grid, idx, in_data_section, data_rows, scan_pc, daily, monthly,
          prev_monthly, monthly_df, ticker, variant, result, cmp,
          store, load_rows, load_status, txn>>

extractVars == <<grid, idx, in_data_section, data_rows, scan_pc>>
rollupVars == <<daily, monthly, prev_monthly>>
validateVars == <<monthly_df, ticker, variant, result, cmp>>
loadVars == <<store, load_rows, load_status, txn>>

(***************************************************************************)
(* Values of a sheet cell and of a float column: a number, NaN (an empty   *)
(* cell, a missing value), or text. Text is a sequence of chunks, the      *)
(* chunk " " standing for white space, so that str.strip() has something   *)
(* to remove.                                                              *)
(***************************************************************************)
Num(n) == [kind |-> "num", v |-> n, s |-> <<>>]
NaN == [kind |-> "nan", v |-> 0, s |-> <<>>]
Inf == [kind |-> "inf", v |-> 0, s |-> <<>>]
Text(chunks) == [kind |-> "text", v |-> 0, s |-> chunks]

\* pd.notna(value)
NotNa(c) == c.kind # "nan"

\* isinstance(value, (int, float)): NaN is a float. The numbers of a row
\* reach the test as Python int or float (or numpy.float64, a float): the
\* month columns hold prices, so that no sheet is of integer columns only.
IsIntOrFloat(c) == c.kind \in {"num", "nan"}

\* str(first_val)
Str(c) ==
    CASE c.kind = "text" -> c.s
      [] c.kind = "nan" -> <<"nan">>
      [] OTHER -> <<"digits">>

RECURSIVE LStrip(_)
LStrip(s) ==
    IF s # <<>> /\ Head(s) = " " THEN LStrip(Tail(s)) ELSE s

RECURSIVE RStrip(_)
RStrip(s) ==
    IF s # <<>> /\ s[Len(s)] = " " THEN RStrip(SubSeq(s, 1, Len(s) - 1)) ELSE s

\* str.strip()
Strip(s) == RStrip(LStrip(s))

(***************************************************************************)
(* Reference extraction: load_excel_max_close of validate_correct.py.      *)
(***************************************************************************)
YearLo == 1980
YearHi == 2030
NumMonths == 12

\* A row is a function from the column labels 0 .. ncols-1 to cells.
NCols(g) == g.ncols
Rows(g) == g.rows

\* isinstance(first_val, (int, float)) and 1980 <= first_val <= 2030
\* (a comparison with NaN is false)
IsYearRow(first_val) ==
    /\ IsIntOrFloat(first_val)
    /\ first_val.kind = "num"
    /\ YearLo <= first_val.v
    /\ first_val.v <= YearHi

\* elif in_data_section and str(first_val).strip() == 'Grand Total'
NeverStops(in_section, first_val) == FALSE
StopsAtAnyTerminator(in_section, first_val) ==
    Strip(Str(first_val)) = <<"Grand Total">>
StopsAtTerminator(in_section, first_val) ==
    in_section /\ Strip(Str(first_val)) = <<"Grand Total">>

\* row[month] raises KeyError when the sheet has no column of that label
HasColumn(g, col) == col < NCols(g)

\* pd.notna(value) and isinstance(value, (int, float))
EmitsCell(value) == NotNa(value) /\ IsIntOrFloat(value)

\* the records the loop over range(1, 13) appends for the months lo .. hi
RECURSIVE MonthEntries(_, _, _)
MonthEntries(row, month, last) ==
    IF month > last THEN <<>>
    ELSE (IF EmitsCell(row[month])
          THEN <<[year |-> row[0].v, month |-> month,
                  close_max_excel |-> row[month].v]>>
          ELSE <<>>) \o MonthEntries(row, month + 1, last)

\* the last month the loop reaches before row[month] raises
LastReadable(g) == IF NCols(g) > NumMonths THEN NumMonths ELSE NCols(g) - 1


(***************************************************************************)
(* The sheets the extraction is run on. A sheet has ncols columns; one     *)
(* month column is populated, the other month columns are empty (NaN).     *)
(* A narrow sheet has fewer than the thirteen columns the loop reads.      *)
(***************************************************************************)
MaxRows == 3

SheetShapes ==
    { [ncols |-> NumMonths + 1, month |-> 1],
      [ncols |-> NumMonths + 1, month |-> NumMonths],
      [ncols |-> 2, month |-> 1] }

GrandTotal == Text(<<"Grand Total">>)
GrandTotalPadded == Text(<<" ", "Grand Total", " ">>)
RowLabels == Text(<<"Row Labels">>)

MkRow(shape, first, cell) ==
    [c \in 0 .. (shape.ncols - 1) |->
        IF c = 0 THEN first ELSE IF c = shape.month THEN cell ELSE NaN]

\* year rows with every kind of month cell; other rows carry a number in the
\* month column (a total, a header label) that must never be emitted
ExtractRowPool(shape) ==
    { MkRow(shape, Num(y), c) :
        y \in {2020, 2021}, c \in {NaN, Text(<<"n/a">>), Num(7), Num(9)} }
    \cup { MkRow(shape, f, Num(5)) :
        f \in {Num(1979), Num(2031), NaN, GrandTotal, GrandTotalPadded, RowLabels} }

\* g is a sheet of one of the shapes with at most MaxRows rows of the pool
IsExtractGrid(g) ==
    \E shape \in SheetShapes : \E k \in 0 .. MaxRows :
        \E rs \in [1 .. k -> ExtractRowPool(shape)] :
            g = [ncols |-> shape.ncols, rows |-> rs]

EmptyGrid == [ncols |-> 0, rows |-> <<>>]

\* a frame without columns that holds one row all the same
PlaceholderFrame == [columns |-> {}, rows |-> <<[ticker |-> ""]>>]
\* pd.DataFrame()
EmptyFrame == [columns |-> {}, rows |-> <<>>]

ExtractIdle ==
    /\ grid = EmptyGrid
    /\ idx = 0
    /\ in_data_section = FALSE
    /\ data_rows = <<>>
    /\ scan_pc = "idle"

\* no frame: the call has not been made
NoFrame == [columns |-> {"<none>"}, rows |-> <<>>]

RollupIdle ==
    /\ daily = EmptyFrame
    /\ monthly = NoFrame
    /\ prev_monthly = NoFrame

\* what validate_ticker hands back: the dict it returns (keys: the keys the
\* dict has; match_pct as the fraction <<numerator, denominator>>), or the
\* exception that ends the call
Returned(status, matches, total, match_pct, keys) ==
    [status |-> status, matches |-> matches, total |-> total,
     match_pct |-> match_pct, keys |-> keys, exc |-> "none"]

Raised(exc) ==
    [status |-> "raised", matches |-> 0, total |-> 0,
     match_pct |-> <<0, 1>>, keys |-> {}, exc |-> exc]

NoResult ==
    [status |-> "idle", matches |-> 0, total |-> 0,
     match_pct |-> <<0, 1>>, keys |-> {}, exc |-> "none"]

NoComparison ==
    [excel_val |-> NaN, fetched_val |-> NaN, tolerance |-> <<0, 1>>,
     answer |-> "idle"]

ValidateIdle ==
    /\ monthly_df = <<>>
    /\ ticker = "none"
    /\ variant = "none"
    /\ result = NoResult
    /\ cmp = NoComparison

\* fetch_and_load_prices not called, on an empty table
LoadIdle ==
    /\ store = {}
    /\ load_rows = <<>>
    /\ load_status = "idle"
    /\ txn = "ok"

InitExtract ==
    /\ IsExtractGrid(grid)
    /\ idx = 1
    /\ in_data_section = FALSE
    /\ data_rows = <<>>
    /\ scan_pc = "scan"
    /\ RollupIdle
    /\ ValidateIdle
    /\ LoadIdle

CurrentRow == Rows(grid)[idx]

\* lines 32-43: a year row whose twelve month columns all exist
ScanYearRow ==
    /\ scan_pc = "scan"
    /\ idx <= Len(Rows(grid))
    /\ IsYearRow(CurrentRow[0])
    /\ HasColumn(grid, NumMonths)
    /\ in_data_section' = TRUE
    /\ data_rows' = data_rows \o MonthEntries(CurrentRow, 1, NumMonths)
    /\ idx' = idx + 1
    /\ UNCHANGED <<grid, scan_pc, rollupVars, validateVars, loadVars>>

\* lines 32-37: a year row of a sheet with fewer columns: row[month] raises
\* KeyError at the first month that has no column
ScanYearRowRaises ==
    /\ scan_pc = "scan"
    /\ idx <= Len(Rows(grid))
    /\ IsYearRow(CurrentRow[0])
    /\ ~HasColumn(grid, NumMonths)
    /\ in_data_section' = TRUE
    /\ data_rows' = data_rows \o MonthEntries(CurrentRow, 1, LastReadable(grid))
    /\ scan_pc' = "raised"
    /\ UNCHANGED <<grid, idx, rollupVars, validateVars, loadVars>>

\* lines 46-49: break at the terminator, then return pd.DataFrame(data_rows)
ScanTerminator ==
    /\ scan_pc = "scan"
    /\ idx <= Len(Rows(grid))
    /\ ~IsYearRow(CurrentRow[0])
    /\ StopsAtTerminator(in_data_section, CurrentRow[0])
    /\ scan_pc' = "returned"
    /\ UNCHANGED <<grid, idx, in_data_section, data_rows, rollupVars, validateVars,
                   loadVars>>

\* neither branch of the loop body is taken
ScanSkipRow ==
    /\ scan_pc = "scan"
    /\ idx <= Len(Rows(grid))
    /\ ~IsYearRow(CurrentRow[0])
    /\ ~StopsAtTerminator(in_data_section, CurrentRow[0])
    /\ idx' = idx + 1
    /\ UNCHANGED <<grid, in_data_section, data_rows, scan_pc, rollupVars, validateVars,
                   loadVars>>

\* line 49: the rows are exhausted
ScanReturn ==
    /\ scan_pc = "scan"
    /\ idx > Len(Rows(grid))
    /\ scan_pc' = "returned"
    /\ UNCHANGED <<grid, idx, in_data_section, data_rows, rollupVars, validateVars,
                   loadVars>>

NextExtract ==
    \/ ScanYearRow
    \/ ScanYearRowRaises
    \/ ScanTerminator
    \/ ScanSkipRow
    \/ ScanReturn

SpecExtract == InitExtract /\ [][NextExtract]_vars

\* load_excel_max_close as a function of the sheet: the loop above, run to
\* its end. raised: the call ended in an exception.
RECURSIVE ScanFrom(_, _, _, _)
ScanFrom(g, i, in_section, acc) ==
    IF i > Len(Rows(g)) THEN [raised |-> FALSE, rows |-> acc]
    ELSE LET row == Rows(g)[i] IN
         IF IsYearRow(row[0])
         THEN IF HasColumn(g, NumMonths)
              THEN ScanFrom(g, i + 1, TRUE, acc \o MonthEntries(row, 1, NumMonths))
              ELSE [raised |-> TRUE, rows |-> <<>>]
         ELSE IF StopsAtTerminator(in_section, row[0])
              THEN [raised |-> FALSE, rows |-> acc]
              ELSE ScanFrom(g, i + 1, in_section, acc)

LoadExcelMaxCloseCorrect(g) == ScanFrom(g, 1, FALSE, <<>>)

(***************************************************************************)
(* Rollup: aggregate_to_monthly of fetch_historical.py.                    *)
(*                                                                         *)
(* A frame is its set of columns and its rows in order. A daily row is     *)
(* [ticker, date, open, high, low, close, volume]; a date is the integer   *)
(* yyyymmdd; a price or a volume is Num(n) or NaN.                         *)
(***************************************************************************)
DailyColumns == {"ticker", "date", "open", "high", "low", "close", "volume"}

MonthlyColumns ==
    {"ticker", "year", "month", "open_first", "high_max", "low_min",
     "close_max", "close_last", "volume_total", "trading_days"}

\* df['date'].dt.year, df['date'].dt.month
YearOf(date) == date \div 10000
MonthOf(date) == (date \div 100) % 100

\* df.empty
IsEmptyFrame(df) == df.columns = {} \/ Len(df.rows) = 0

\* df = df.copy(): the local name is bound to a new frame, so the assignments
\* that follow do not reach the caller's frame
AliasCaller(df) == [aliases_caller |-> TRUE, frame |-> df]
CopyFrame(df) == [aliases_caller |-> FALSE, frame |-> df]

\* df['date'] = pd.to_datetime(df['date']); df['year'] = ...; df['month'] = ...
WithYearMonth(local) ==
    [local EXCEPT !.frame.columns = @ \cup {"year", "month"}]

\* the caller's frame once the call has returned
CallerFrameAfter(df, local) == IF local.aliases_caller THEN local.frame ELSE df

\* the grouping key of groupby(['ticker', 'year', 'month'])
KeyOfYearMonth(b) == <<"", YearOf(b.date), MonthOf(b.date)>>
KeyOf(b) == <<b.ticker, YearOf(b.date), MonthOf(b.date)>>

GroupKeys(rows) == { KeyOf(rows[i]) : i \in 1 .. Len(rows) }

\* the rows of one group, in the order of the frame (groupby keeps it)
RECURSIVE GroupRows(_, _)
GroupRows(rows, key) ==
    IF rows = <<>> THEN <<>>
    ELSE (IF KeyOf(Head(rows)) = key THEN <<Head(rows)>> ELSE <<>>)
         \o GroupRows(Tail(rows), key)

ColumnOf(rows, name) == [i \in 1 .. Len(rows) |-> rows[i][name]]

\* GroupBy 'first': the first value that is not NaN
RECURSIVE PdFirst(_)
PdFirst(vals) ==
    IF vals = <<>> THEN NaN
    ELSE IF NotNa(Head(vals)) THEN Head(vals) ELSE PdFirst(Tail(vals))

\* GroupBy 'last': the last value that is not NaN
RECURSIVE PdLast(_)
PdLast(vals) ==
    IF vals = <<>> THEN NaN
    ELSE IF NotNa(vals[Len(vals)]) THEN vals[Len(vals)]
    ELSE PdLast(SubSeq(vals, 1, Len(vals) - 1))

\* GroupBy 'max' and 'min' skip NaN; NaN when every value is NaN
RECURSIVE PdMax(_)
PdMax(vals) ==
    IF vals = <<>> THEN NaN
    ELSE LET rest == PdMax(Tail(vals)) IN
         IF ~NotNa(Head(vals)) THEN rest
         ELSE IF ~NotNa(rest) THEN Head(vals)
         ELSE IF Head(vals).v >= rest.v THEN Head(vals) ELSE rest

RECURSIVE PdMin(_)
PdMin(vals) ==
    IF vals = <<>> THEN NaN
    ELSE LET rest == PdMin(Tail(vals)) IN
         IF ~NotNa(Head(vals)) THEN rest
         ELSE IF ~NotNa(rest) THEN Head(vals)
         ELSE IF Head(vals).v <= rest.v THEN Head(vals) ELSE rest

\* GroupBy 'sum' skips NaN; 0 when every value is NaN
RECURSIVE PdSumInt(_)
PdSumInt(vals) ==
    IF vals = <<>> THEN 0
    ELSE (IF NotNa(Head(vals)) THEN Head(vals).v ELSE 0) + PdSumInt(Tail(vals))

PdSum(vals) == Num(PdSumInt(vals))

\* GroupBy 'count' of the date column: the rows of a group all have a date
\* (the key is derived from it)
PdCount(vals) == Len(vals)

\* the high column aggregated with 'min'
HighMinOf(g) == PdMin(ColumnOf(g, "high"))
HighMaxOf(g) == PdMax(ColumnOf(g, "high"))

\* the open column aggregated without skipping NaN
OpenHeadOf(g) == ColumnOf(g, "open")[1]
OpenFirstOf(g) == PdFirst(ColumnOf(g, "open"))

\* one row of the .agg({...}) result, columns renamed as in lines 187-188
AggRow(key, g) ==
    [ticker |-> key[1], year |-> key[2], month |-> key[3],
     open_first |-> OpenFirstOf(g),
     high_max |-> HighMaxOf(g),
     low_min |-> PdMin(ColumnOf(g, "low")),
     close_max |-> PdMax(ColumnOf(g, "close")),
     close_last |-> PdLast(ColumnOf(g, "close")),
     volume_total |-> PdSum(ColumnOf(g, "volume")),
     trading_days |-> PdCount(ColumnOf(g, "date"))]

\* the order of the tickers as strings
TickerRank(t) == CASE t = "" -> 0 [] t = "AAPL" -> 1 [] t = "TSLA" -> 2 [] OTHER -> 3

KeyLe(a, b) ==
    \/ TickerRank(a[1]) < TickerRank(b[1])
    \/ a[1] = b[1] /\ a[2] < b[2]
    \/ a[1] = b[1] /\ a[2] = b[2] /\ a[3] <= b[3]

\* groupby sorts the group keys
RECURSIVE SortedKeys(_)
SortedKeys(S) ==
    IF S = {} THEN <<>>
    ELSE LET k == CHOOSE k \in S : \A o \in S : KeyLe(k, o) IN
         <<k>> \o SortedKeys(S \ {k})

\* lines 177-188
GroupAgg(rows) ==
    LET keys == SortedKeys(GroupKeys(rows)) IN
    [columns |-> MonthlyColumns,
     rows |-> [i \in 1 .. Len(keys) |-> AggRow(keys[i], GroupRows(rows, keys[i]))]]

\* the frame aggregate_to_monthly(df) returns
MonthlyOf(df) == IF IsEmptyFrame(df) THEN EmptyFrame ELSE GroupAgg(df.rows)

(***************************************************************************)
(* The daily frames the rollup is called on.                               *)
(***************************************************************************)
MaxBars == 3

Bar(t, d, o, h, l, c, v) ==
    [ticker |-> t, date |-> d, open |-> o, high |-> h, low |-> l,
     close |-> c, volume |-> v]

\* prices and volume of a bar: two ordinary bars, a bar with no price at
\* all, a bar with no close, a bar with no open and no high, and a bar whose
\* prices are positive but whose high is below its low and its close
PriceProfiles ==
    { <<Num(10), Num(12), Num(9), Num(11), Num(5)>>,
      <<Num(11), Num(15), Num(10), Num(15), Num(7)>>,
      <<NaN, NaN, NaN, NaN, Num(3)>>,
      <<Num(10), Num(12), Num(9), NaN, Num(5)>>,
      <<NaN, NaN, Num(14), Num(16), Num(5)>>,
      <<Num(10), Num(1), Num(2), Num(3), Num(0)>> }

\* one ticker on two days of January 2020 with every profile, the same
\* ticker on a day of February and a second ticker on a day of January
BarPool ==
    { Bar("AAPL", d, p[1], p[2], p[3], p[4], p[5]) :
        d \in {20200102, 20200103}, p \in PriceProfiles }
    \cup { Bar("AAPL", 20200203, Num(10), Num(12), Num(9), Num(11), Num(5)),
           Bar("AAPL", 20200203, NaN, NaN, NaN, NaN, Num(3)),
           Bar("TSLA", 20200102, Num(11), Num(15), Num(10), Num(15), Num(7)) }

\* four trading days of January 2020 with closes 10, 12, 9, 15
ScenarioBars ==
    << Bar("AAPL", 20200102, Num(10), Num(11), Num(9), Num(10), Num(1)),
       Bar("AAPL", 20200103, Num(10), Num(13), Num(10), Num(12), Num(1)),
       Bar("AAPL", 20200106, Num(12), Num(12), Num(8), Num(9), Num(1)),
       Bar("AAPL", 20200107, Num(9), Num(16), Num(9), Num(15), Num(1)) >>

\* the scenario's bars in every order
ScenarioFrames ==
    { [i \in 1 .. 4 |-> ScenarioBars[f[i]]] :
        f \in { g \in [1 .. 4 -> 1 .. 4] : \A a, b \in 1 .. 4 : a # b => g[a] # g[b] } }

\* df is the empty frame, a frame of at most MaxBars bars of the pool, or the
\* scenario's bars in some order
IsDailyFrame(df) ==
    \/ df = EmptyFrame
    \/ \E k \in 0 .. MaxBars : \E rs \in [1 .. k -> BarPool] :
          df = [columns |-> DailyColumns, rows |-> rs]
    \/ \E rs \in ScenarioFrames :
          df = [columns |-> DailyColumns, rows |-> rs]

InitRollup ==
    /\ IsDailyFrame(daily)
    /\ monthly = NoFrame
    /\ prev_monthly = NoFrame
    /\ ExtractIdle
    /\ ValidateIdle
    /\ LoadIdle

\* lines 167-168: an empty frame is answered with an empty frame
AggregateEmpty ==
    /\ IsEmptyFrame(daily)
    /\ monthly' = EmptyFrame
    /\ prev_monthly' = monthly
    /\ UNCHANGED <<daily, extractVars, validateVars, loadVars>>

\* lines 170-190
AggregateToMonthly ==
    /\ ~IsEmptyFrame(daily)
    /\ LET local == WithYearMonth(CopyFrame(daily)) IN
          /\ monthly' = GroupAgg(local.frame.rows)
          /\ daily' = CallerFrameAfter(daily, local)
    /\ prev_monthly' = monthly
    /\ UNCHANGED <<extractVars, validateVars, loadVars>>

NextRollup ==
    \/ AggregateEmpty
    \/ AggregateToMonthly

SpecRollup == InitRollup /\ [][NextRollup]_vars

(***************************************************************************)
(* Reference extraction of full_validation.py: every year row of the       *)
(* sheet is read, there is no terminator.                                  *)
(***************************************************************************)
\* lines 23-30: months = row[1:13].values; a value that is not NaN goes
\* through float(value), which raises ValueError on text
RECURSIVE MonthEntriesFull(_, _, _)
MonthEntriesFull(row, month, last) ==
    IF month > last THEN [raised |-> FALSE, rows |-> <<>>]
    ELSE LET rest == MonthEntriesFull(row, month + 1, last) IN
         IF ~NotNa(row[month]) THEN rest
         ELSE IF row[month].kind = "text" THEN [raised |-> TRUE, rows |-> <<>>]
         ELSE IF rest.raised THEN rest
         ELSE [raised |-> FALSE,
               rows |-> <<[year |-> row[0].v, month |-> month,
                           close_max_excel |-> row[month].v]>> \o rest.rows]

RECURSIVE ScanFullFrom(_, _, _)
ScanFullFrom(g, i, acc) ==
    IF i > Len(Rows(g)) THEN [raised |-> FALSE, rows |-> acc]
    ELSE LET row == Rows(g)[i] IN
         IF IsYearRow(row[0])
         THEN LET got == MonthEntriesFull(row, 1, LastReadable(g)) IN
              IF got.raised THEN [raised |-> TRUE, rows |-> <<>>]
              ELSE ScanFullFrom(g, i + 1, acc \o got.rows)
         ELSE ScanFullFrom(g, i + 1, acc)

LoadExcelMaxCloseFull(g) == ScanFullFrom(g, 1, <<>>)

\* the exception a failed extraction ends in
LoadError(v) == IF v = "correct" THEN "KeyError" ELSE "ValueError"

LoadExcelMaxClose(v, g) ==
    IF v = "correct" THEN LoadExcelMaxCloseCorrect(g) ELSE LoadExcelMaxCloseFull(g)

(***************************************************************************)
(* Reconciliation: validate_ticker of validate_correct.py ("correct") and  *)
(* of full_validation.py ("full").                                         *)
(*                                                                         *)
(* A row of monthly_df is [ticker, year, month, close_max]: the columns of *)
(* the CSV that validate_ticker reads.                                     *)
(***************************************************************************)
\* monthly_df[monthly_df['ticker'] == ticker]
RECURSIVE FilterTicker(_, _)
FilterTicker(rows, t) ==
    IF rows = <<>> THEN <<>>
    ELSE (IF Head(rows).ticker = t THEN <<Head(rows)>> ELSE <<>>)
         \o FilterTicker(Tail(rows), t)

\* the rows an inner merge on ['year', 'month'] pairs with one left row
RECURSIVE MergeOne(_, _)
MergeOne(l, right) ==
    IF right = <<>> THEN <<>>
    ELSE (IF Head(right).year = l.year /\ Head(right).month = l.month
          THEN <<[year |-> l.year, month |-> l.month, close_max |-> l.close_max,
                  close_max_excel |-> Head(right).close_max_excel]>>
          ELSE <<>>) \o MergeOne(l, Tail(right))

\* pd.merge(left, right, on=['year', 'month'], how='inner')
RECURSIVE Merge(_, _)
Merge(left, right) ==
    IF left = <<>> THEN <<>>
    ELSE MergeOne(Head(left), right) \o Merge(Tail(left), right)

Abs(n) == IF n < 0 THEN 0 - n ELSE n

\* abs(close_max - close_max_excel) / close_max_excel * 100 in floats: the
\* fraction [num, den], or NaN (0 / 0, or a NaN operand), or infinity
\* (x / 0 with x > 0)
PctDiff(computed, reference) ==
    IF computed.kind # "num" THEN NaN
    ELSE LET diff == Abs(computed.v - reference) IN
         IF reference = 0 THEN (IF diff = 0 THEN NaN ELSE Inf)
         ELSE [kind |-> "frac", num |-> diff * 100, den |-> reference]

\* pct_diff < tolerance, the tolerance being the fraction tol[1] / tol[2]
PctLess(p, tol) ==
    CASE p.kind = "frac" ->
            IF p.den > 0 THEN p.num * tol[2] < tol[1] * p.den
            ELSE p.num * tol[2] > tol[1] * p.den
      [] OTHER -> FALSE

\* pct_diff >= tolerance
PctAtLeast(p, tol) ==
    CASE p.kind = "frac" ->
            IF p.den > 0 THEN p.num * tol[2] >= tol[1] * p.den
            ELSE p.num * tol[2] <= tol[1] * p.den
      [] p.kind = "inf" -> TRUE
      [] OTHER -> FALSE

\* the tolerance written in the comparison, in percent: 1.0 and 0.1
TolerancePct(v) == IF v = "correct" THEN <<1, 1>> ELSE <<1, 10>>

\* the pass threshold written in the return statement, in percent
PassPct(v) == IF v = "correct" THEN 95 ELSE 99

StatusNoOverlap(v) == IF v = "correct" THEN "NO_OVERLAP" ELSE "NO_MATCH"
StatusBelow(v) == IF v = "correct" THEN "CHECK" ELSE "FAIL"

RECURSIVE CountMatches(_, _)
CountMatches(merged, tol) ==
    IF merged = <<>> THEN 0
    ELSE (IF PctLess(PctDiff(Head(merged).close_max,
                             Head(merged).close_max_excel), tol)
          THEN 1 ELSE 0) + CountMatches(Tail(merged), tol)

\* merged[merged['pct_diff'] >= tolerance]: the local frame 'mismatches',
\* which validate_ticker prints and does not return
RECURSIVE MismatchesOf(_, _)
MismatchesOf(merged, tol) ==
    IF merged = <<>> THEN <<>>
    ELSE (IF PctAtLeast(PctDiff(Head(merged).close_max,
                                Head(merged).close_max_excel), tol)
          THEN <<Head(merged)>> ELSE <<>>) \o MismatchesOf(Tail(merged), tol)

\* the rows both frames have a (year, month) for, paired
MergedOf(v, t, g, mdf) ==
    Merge(FilterTicker(mdf, t), LoadExcelMaxClose(v, g).rows)

ValidateTickerOf(v, t, g, mdf) ==
    LET excel == LoadExcelMaxClose(v, g)
        merged == MergedOf(v, t, g, mdf)
        matches == CountMatches(merged, TolerancePct(v))
        total == Len(merged)
    IN  IF excel.raised THEN Raised(LoadError(v))
        \* pd.DataFrame([]) has no columns: excel_df['year'] (correct, line 61)
        \* and the merge on ['year', 'month'] (full, line 50) raise KeyError
        ELSE IF excel.rows = <<>> THEN Raised("KeyError")
        ELSE IF total = 0
        THEN Returned(StatusNoOverlap(v), 0, 0, <<0, 1>>,
                      {"ticker", "status", "matches", "total"})
        ELSE Returned(IF matches * 100 >= PassPct(v) * total
                      THEN "PASS" ELSE StatusBelow(v),
                      matches, total, <<matches * 100, total>>,
                      {"ticker", "status", "matches", "total", "match_pct"})

(***************************************************************************)
(* The sheets and monthly frames validate_ticker is run on.                *)
(***************************************************************************)
MaxRefRows == 3

RefShapes ==
    { [ncols |-> NumMonths + 1, month |-> 1],
      [ncols |-> 2, month |-> 1] }

RefRowPool(shape) ==
    { MkRow(shape, Num(2020), c) :
        c \in {NaN, Text(<<"n/a">>), Num(0), Num(100), Num(0 - 100)} }
    \cup { MkRow(shape, Num(2021), Num(100)), MkRow(shape, GrandTotal, Num(5)) }

IsRefGrid(g) ==
    \E shape \in RefShapes : \E k \in 0 .. MaxRefRows :
        \E rs \in [1 .. k -> RefRowPool(shape)] :
            g = [ncols |-> shape.ncols, rows |-> rs]

MonthlyRow(t, y, m, c) == [ticker |-> t, year |-> y, month |-> m, close_max |-> c]

\* a monthly frame as the rollup writes it: at most one row per
\* (ticker, year, month), in the order of the keys
OptionalRow(t, y, m, values) ==
    { <<>> } \cup { <<MonthlyRow(t, y, m, c)>> : c \in values }

IsMonthlyFrame(mdf) ==
    \E a \in OptionalRow("AAPL", 2020, 1, {Num(0), Num(100), Num(101)}) :
    \E b \in OptionalRow("AAPL", 2021, 1, {Num(100)}) :
    \E c \in OptionalRow("TSLA", 2020, 1, {Num(100)}) :
        mdf = a \o b \o c

InitValidate ==
    /\ IsRefGrid(grid)
    /\ IsMonthlyFrame(monthly_df)
    /\ ticker = "AAPL"
    /\ variant \in {"correct", "full"}
    /\ result = NoResult
    /\ cmp = NoComparison
    /\ idx = 0
    /\ in_data_section = FALSE
    /\ data_rows = <<>>
    /\ scan_pc = "idle"
    /\ RollupIdle
    /\ LoadIdle

\* validate_ticker(ticker, excel_path, monthly_df) returns or raises
ValidateTicker ==
    /\ result.status = "idle"
    /\ result' = ValidateTickerOf(variant, ticker, grid, monthly_df)
    /\ UNCHANGED <<monthly_df, ticker, variant, cmp, extractVars, rollupVars,
                   loadVars>>

NextValidate == ValidateTicker

SpecValidate == InitValidate /\ [][NextValidate]_vars

(***************************************************************************)
(* compare_values of validate_data.py.                                     *)
(***************************************************************************)
\* tolerance=0.02
DefaultTolerance == <<2, 100>>

CompareValuesOf(excel_val, fetched_val, tolerance) ==
    IF ~NotNa(excel_val) \/ ~NotNa(fetched_val) THEN "None"
    ELSE IF excel_val.v = 0
    THEN (IF fetched_val.v = 0 THEN "True" ELSE "False")
    ELSE IF Abs(excel_val.v - fetched_val.v) * tolerance[2]
                <= tolerance[1] * Abs(excel_val.v)
    THEN "True" ELSE "False"

InitCompare ==
    /\ cmp = NoComparison
    /\ ExtractIdle
    /\ RollupIdle
    /\ monthly_df = <<>>
    /\ ticker = "none"
    /\ variant = "none"
    /\ result = NoResult
    /\ LoadIdle

CompareValues ==
    \E e \in {NaN, Num(0), Num(50), Num(100), Num(0 - 100)} :
    \E f \in {NaN, Num(0), Num(5), Num(98), Num(100), Num(102), Num(103)} :
    \E tol \in {DefaultTolerance, <<1, 100>>, <<1, 1000>>} :
        /\ cmp' = [excel_val |-> e, fetched_val |-> f, tolerance |-> tol,
                   answer |-> CompareValuesOf(e, f, tol)]
        /\ UNCHANGED <<monthly_df, ticker, variant, result, extractVars, rollupVars,
                       loadVars>>

NextCompare == CompareValues

SpecCompare == InitCompare /\ [][NextCompare]_vars

(***************************************************************************)
(* Ingestion: fetch_and_load_prices of load_to_postgres.py, one step per   *)
(* ticker of its loop.                                                     *)
(*                                                                         *)
(* The frame of a ticker is what stock.history(...) returns: its rows in   *)
(* the order of the index, a row being a bar whose date is the index       *)
(* value. The table monthly_prices is the set of its committed rows.       *)
(***************************************************************************)
\* df.groupby(['Year', 'Month'])
LoadKeyOf(b) == <<YearOf(b.date), MonthOf(b.date)>>

LoadGroupKeys(bars) == { LoadKeyOf(bars[i]) : i \in 1 .. Len(bars) }

RECURSIVE LoadGroupRows(_, _)
LoadGroupRows(bars, key) ==
    IF bars = <<>> THEN <<>>
    ELSE (IF LoadKeyOf(Head(bars)) = key THEN <<Head(bars)>> ELSE <<>>)
         \o LoadGroupRows(Tail(bars), key)

\* groupby sorts the (Year, Month) keys
RECURSIVE LoadSortedKeys(_)
LoadSortedKeys(S) ==
    IF S = {} THEN <<>>
    ELSE LET k == CHOOSE k \in S :
                    \A o \in S : k[1] < o[1] \/ (k[1] = o[1] /\ k[2] <= o[2])
         IN  <<k>> \o LoadSortedKeys(S \ {k})

\* the rows of a group that have a close
ClosesCounted(g) == Cardinality({ i \in 1 .. Len(g) : NotNa(g[i].close) })
\* df.groupby(['Year', 'Month']).size(): the rows of a group
TradingDaysOf(g) == Len(g)

\* float(x) of a float of the row: the float itself, NaN included
PyFloat(c) == c
\* int(x) of a sum: the sum is never NaN and is integral
PyInt(c) == c

\* one tuple of 'rows' (lines 92-106), by the names of the table's columns
LoadRow(t, key, g) ==
    [ticker |-> t, year |-> key[1], month |-> key[2],
     close_max |-> PyFloat(PdMax(ColumnOf(g, "close"))),
     open_first |-> PyFloat(PdFirst(ColumnOf(g, "open"))),
     high_max |-> PyFloat(PdMax(ColumnOf(g, "high"))),
     low_min |-> PyFloat(PdMin(ColumnOf(g, "low"))),
     close_last |-> PyFloat(PdLast(ColumnOf(g, "close"))),
     volume_total |-> PyInt(PdSum(ColumnOf(g, "volume"))),
     trading_days |-> TradingDaysOf(g)]

\* lines 71-106: the rows prepared for one ticker
LoadRowsOf(t, bars) ==
    LET keys == LoadSortedKeys(LoadGroupKeys(bars)) IN
    [i \in 1 .. Len(keys) |-> LoadRow(t, keys[i], LoadGroupRows(bars, keys[i]))]

\* the unique key of monthly_prices named by ON CONFLICT
StoreKey(r) == <<r.ticker, r.year, r.month>>

\* a row as INSERT writes it; updated_at is left to the column's default
InsertedRow(r) == r @@ [updated_at |-> "default"]

\* DO UPDATE SET <the seven aggregate columns> = EXCLUDED..., updated_at = NOW()
UpdatedRow(s, r) ==
    [s EXCEPT !.close_max = r.close_max, !.open_first = r.open_first,
              !.high_max = r.high_max, !.low_min = r.low_min,
              !.close_last = r.close_last, !.volume_total = r.volume_total,
              !.trading_days = r.trading_days, !.updated_at = "now"]

\* an insert that leaves a row of the same key as it is
KeepsExistingRow(tbl, r) ==
    IF \E s \in tbl : StoreKey(s) = StoreKey(r) THEN tbl
    ELSE tbl \cup {InsertedRow(r)}
\* INSERT ... ON CONFLICT (ticker, year, month) DO UPDATE, for one row
UpsertRow(tbl, r) ==
    LET hit == { s \in tbl : StoreKey(s) = StoreKey(r) } IN
    IF hit = {} THEN tbl \cup {InsertedRow(r)}
    ELSE (tbl \ hit) \cup { UpdatedRow(s, r) : s \in hit }

\* execute_values(cur, <the upsert>, rows)
RECURSIVE ExecuteValues(_, _)
ExecuteValues(tbl, rows) ==
    IF rows = <<>> THEN tbl
    ELSE ExecuteValues(UpsertRow(tbl, Head(rows)), Tail(rows))

(***************************************************************************)
(* The tickers and histories the ingestion is run on.                      *)
(***************************************************************************)
MaxHistory == 2

Tickers == {"AAPL", "TSLA"}

\* two trading days of January 2020 and one of February
HistoryPool(t) ==
    { Bar(t, 20200102, Num(10), Num(12), Num(9), Num(11), Num(5)),
      Bar(t, 20200103, Num(11), Num(15), Num(10), Num(15), Num(7)),
      Bar(t, 20200203, Num(10), Num(12), Num(9), Num(11), Num(5)) }

\* stock.history(...) of ticker t: at most MaxHistory bars, the index ascending
IsHistory(t, bars) ==
    \E k \in 0 .. MaxHistory : \E rs \in [1 .. k -> HistoryPool(t)] :
        /\ bars = rs
        /\ \A i \in 1 .. (k - 1) : rs[i].date < rs[i + 1].date

InitLoad ==
    /\ LoadIdle
    /\ ExtractIdle
    /\ RollupIdle
    /\ ValidateIdle

\* lines 66-68: no data for the ticker
LoadNoData ==
    /\ \E t \in Tickers : IsHistory(t, <<>>)
    /\ load_rows' = <<>>
    /\ load_status' = "no data"
    /\ UNCHANGED <<store, txn, extractVars, rollupVars, validateVars>>

\* lines 70-126 for the frame 'bars' of ticker t: the rows are upserted and
\* committed
LoadCommittedOf(t, bars) ==
    /\ bars # <<>>
    /\ txn = "ok"
    /\ load_rows' = LoadRowsOf(t, bars)
    /\ store' = ExecuteValues(store, LoadRowsOf(t, bars))
    /\ load_status' = "committed"
    /\ UNCHANGED txn

LoadCommitted ==
    /\ \E t \in Tickers : \E k \in 1 .. MaxHistory :
       \E bars \in [1 .. k -> HistoryPool(t)] :
          /\ IsHistory(t, bars)
          /\ LoadCommittedOf(t, bars)
    /\ UNCHANGED <<extractVars, rollupVars, validateVars>>

\* lines 63-64, 128-130: stock.history raises; no statement was executed
LoadFetchFails ==
    /\ load_rows' = <<>>
    /\ load_status' = "error"
    /\ UNCHANGED <<store, txn, extractVars, rollupVars, validateVars>>

\* lines 109-130: execute_values raises (a database error, or a transaction
\* that an earlier error of this connection left aborted); nothing of the
\* ticker is committed and the except branch does not roll back
LoadExecuteFails ==
    /\ \E t \in Tickers : \E k \in 1 .. MaxHistory :
       \E bars \in [1 .. k -> HistoryPool(t)] :
          /\ IsHistory(t, bars)
          /\ load_rows' = LoadRowsOf(t, bars)
    /\ load_status' = "error"
    /\ txn' = "aborted"
    /\ UNCHANGED <<store, extractVars, rollupVars, validateVars>>

\* main: conn.close() in the finally branch; the next run connects anew
LoadRunEnds ==
    /\ load_status # "idle"
    /\ txn' = "ok"
    /\ load_status' = "idle"
    /\ load_rows' = <<>>
    /\ UNCHANGED <<store, extractVars, rollupVars, validateVars>>

\* one ticker of the loop of fetch_and_load_prices, or the end of a run
NextLoad ==
    \/ LoadNoData
    \/ LoadCommitted
    \/ LoadFetchFails
    \/ LoadExecuteFails
    \/ LoadRunEnds

SpecLoad == InitLoad /\ [][NextLoad]_vars

(***************************************************************************)
(* The two rollups on the same bars: aggregate_to_monthly on the frame of  *)
(* one ticker, and fetch_and_load_prices on the history that frame was     *)
(* made from (fetch_stock_data renames the columns and adds the ticker).   *)
(***************************************************************************)
\* the bars of the pool of one ticker
TickerPool(t) == { b \in BarPool : b.ticker = t }

\* df is the empty frame or a frame of at most MaxBars bars of ticker t
IsTickerFrame(t, df) ==
    \/ df = EmptyFrame
    \/ \E k \in 0 .. MaxBars : \E rs \in [1 .. k -> TickerPool(t)] :
          df = [columns |-> DailyColumns, rows |-> rs]

InitAgree ==
    /\ IsTickerFrame("AAPL", daily)
    /\ monthly = NoFrame
    /\ prev_monthly = NoFrame
    /\ ExtractIdle
    /\ ValidateIdle
    /\ LoadIdle

\* fetch_and_load_prices for the ticker whose history the frame holds
LoadDailyNoData ==
    /\ IsEmptyFrame(daily)
    /\ load_rows' = <<>>
    /\ load_status' = "no data"
    /\ UNCHANGED <<store, txn, extractVars, rollupVars, validateVars>>

LoadDaily ==
    /\ ~IsEmptyFrame(daily)
    /\ LoadCommittedOf("AAPL", daily.rows)
    /\ UNCHANGED <<extractVars, rollupVars, validateVars>>

NextAgree ==
    \/ AggregateEmpty
    \/ AggregateToMonthly
    \/ LoadDailyNoData
    \/ LoadDaily

SpecAgree == InitAgree /\ [][NextAgree]_vars

(***************************************************************************)
(* What the first section of a sheet is, stated on the sheet alone.        *)
(***************************************************************************)
NotSpace(chunk) == chunk # " "

\* the first cell is the text 'Grand Total', white space around it aside
IsTerminatorCell(c) ==
    c.kind = "text" /\ SelectSeq(c.s, NotSpace) = <<"Grand Total">>

\* the first cell is a number that is a plausible calendar year
IsYearCell(c) == c.kind = "num" /\ c.v \in YearLo .. YearHi

YearRowIndexes(g) == { i \in 1 .. Len(Rows(g)) : IsYearCell(Rows(g)[i][0]) }

\* the terminator rows that follow a year row
SectionEnds(g) ==
    { i \in 1 .. Len(Rows(g)) :
        /\ IsTerminatorCell(Rows(g)[i][0])
        /\ \E j \in YearRowIndexes(g) : j < i }

\* the row at which the first section ends (past the last row if it never ends)
FirstSectionEnd(g) ==
    IF SectionEnds(g) = {} THEN Len(Rows(g)) + 1
    ELSE CHOOSE i \in SectionEnds(g) : \A k \in SectionEnds(g) : i <= k

\* the (row, month) places of the numeric month cells of the first section
FirstSectionCells(g) ==
    LET end == FirstSectionEnd(g)
        last == IF NCols(g) > NumMonths THEN NumMonths ELSE NCols(g) - 1
    IN  { p \in { i \in YearRowIndexes(g) : i < end } \X (1 .. last) :
            Rows(g)[p[1]][p[2]].kind = "num" }

CellEntry(g, p) ==
    [year |-> Rows(g)[p[1]][0].v, month |-> p[2],
     close_max_excel |-> Rows(g)[p[1]][p[2]].v]

SeqRange(q) == { q[i] : i \in 1 .. Len(q) }

\* C1: load_excel_max_close never emits a value of a row at or after the first
\* 'Grand Total' row that follows a year row, and what it returns is exactly
\* the numeric month cells of the year rows before that row, each once.
C1_FirstSectionOnly ==
    LET cells == FirstSectionCells(grid)
        entries == { CellEntry(grid, p) : p \in cells }
    IN  /\ scan_pc \in {"scan", "returned", "raised"} =>
               SeqRange(data_rows) \subseteq entries
        /\ scan_pc = "returned" =>
               /\ SeqRange(data_rows) = entries
               /\ Len(data_rows) = Cardinality(cells)

\* a returned scan of a sheet whose second section repeats a year of the first
\* with another value in the same month
C1_Witness ==
    /\ scan_pc = "returned"
    /\ data_rows # <<>>
    /\ \E i, j \in YearRowIndexes(grid) : \E m \in 1 .. NumMonths :
          /\ i < FirstSectionEnd(grid)
          /\ FirstSectionEnd(grid) < j
          /\ Rows(grid)[i][0] = Rows(grid)[j][0]
          /\ Rows(grid)[i][m].kind = "num"
          /\ Rows(grid)[j][m].kind = "num"
          /\ Rows(grid)[i][m] # Rows(grid)[j][m]

(***************************************************************************)
(* What a rollup is, stated on the caller's daily frame alone.             *)
(***************************************************************************)
Called == monthly # NoFrame

\* the (ticker, year, month) a bar's date falls in
PeriodOf(b) == <<b.ticker, b.date \div 10000, (b.date \div 100) % 100>>

RowKey(r) == <<r.ticker, r.year, r.month>>

Periods(df) == { PeriodOf(df.rows[i]) : i \in 1 .. Len(df.rows) }

\* the places in the frame of the bars of one period
BarsAt(df, k) == { i \in 1 .. Len(df.rows) : PeriodOf(df.rows[i]) = k }

PresentVals(df, G, col) ==
    { df.rows[i][col].v : i \in { j \in G : df.rows[j][col].kind = "num" } }

IsMaxOver(c, S) ==
    IF S = {} THEN c = NaN
    ELSE c.kind = "num" /\ c.v \in S /\ \A x \in S : x <= c.v

IsMinOver(c, S) ==
    IF S = {} THEN c = NaN
    ELSE c.kind = "num" /\ c.v \in S /\ \A x \in S : c.v <= x

RECURSIVE VolumeOver(_, _)
VolumeOver(df, G) ==
    IF G = {} THEN 0
    ELSE LET i == CHOOSE i \in G : TRUE IN
         (IF df.rows[i].volume.kind = "num" THEN df.rows[i].volume.v ELSE 0)
         + VolumeOver(df, G \ {i})

\* C2: the rollup has exactly one record for each (ticker, year, month) that
\* occurs among the bars' dates, and no other record.
C2_OneRecordPerPeriod ==
    Called =>
        /\ { RowKey(monthly.rows[i]) : i \in 1 .. Len(monthly.rows) } = Periods(daily)
        /\ Len(monthly.rows) = Cardinality(Periods(daily))

\* a rollup of two tickers in the same month, one of them with two bars
C2_Witness ==
    /\ Called
    /\ Len(monthly.rows) >= 2
    /\ \E i, j, k \in 1 .. Len(daily.rows) :
          /\ i # j
          /\ PeriodOf(daily.rows[i]) = PeriodOf(daily.rows[j])
          /\ daily.rows[k].ticker # daily.rows[i].ticker
          /\ daily.rows[k].date \div 100 = daily.rows[i].date \div 100

\* C3: in every record, high_max is the greatest high, low_min the least low,
\* close_max the greatest close, volume_total the sum of the volumes and
\* trading_days the number of bars, over exactly the bars of the record's
\* (ticker, year, month).
C3_Reductions ==
    Called =>
        \A n \in 1 .. Len(monthly.rows) :
            LET r == monthly.rows[n]
                G == BarsAt(daily, RowKey(r))
            IN  /\ IsMaxOver(r.high_max, PresentVals(daily, G, "high"))
                /\ IsMinOver(r.low_min, PresentVals(daily, G, "low"))
                /\ IsMaxOver(r.close_max, PresentVals(daily, G, "close"))
                /\ r.volume_total = Num(VolumeOver(daily, G))
                /\ r.trading_days = Cardinality(G)

\* the four January 2020 bars with closes 10, 12, 9, 15, rolled up
C3_Witness ==
    /\ Called
    /\ Len(daily.rows) = 4
    /\ ColumnOf(daily.rows, "close") = <<Num(10), Num(12), Num(9), Num(15)>>
    /\ Len(monthly.rows) = 1
    /\ monthly.rows[1].year = 2020
    /\ monthly.rows[1].month = 1
    /\ monthly.rows[1].close_max = Num(15)
    /\ monthly.rows[1].trading_days = 4

AllPricesPresent(b) ==
    /\ b.open.kind = "num"
    /\ b.high.kind = "num"
    /\ b.low.kind = "num"
    /\ b.close.kind = "num"

\* C4: whatever the order of the bars, open_first is the open of the bar with
\* the earliest date of the period and close_last the close of the bar with
\* the latest date (stated for periods whose bars all have their prices).
C4_SortsByDate ==
    Called =>
        \A n \in 1 .. Len(monthly.rows) :
            LET r == monthly.rows[n]
                G == BarsAt(daily, RowKey(r))
            IN  (\A i \in G : AllPricesPresent(daily.rows[i])) =>
                /\ \E i \in G :
                      /\ \A j \in G : daily.rows[i].date <= daily.rows[j].date
                      /\ r.open_first = daily.rows[i].open
                /\ \E i \in G :
                      /\ \A j \in G : daily.rows[j].date <= daily.rows[i].date
                      /\ r.close_last = daily.rows[i].close

AllPricesNull(b) ==
    /\ b.open = NaN
    /\ b.high = NaN
    /\ b.low = NaN
    /\ b.close = NaN

OnlyCloseNull(b) ==
    /\ b.close = NaN
    /\ b.open.kind = "num"
    /\ b.high.kind = "num"
    /\ b.low.kind = "num"

HasPrice(b) == ~AllPricesNull(b)
HasClose(b) == b.close.kind = "num"

\* the frame without the bars that have no price at all / no close
WithoutAllNull(df) == [df EXCEPT !.rows = SelectSeq(@, HasPrice)]
WithoutNullClose(df) == [df EXCEPT !.rows = SelectSeq(@, HasClose)]

\* the record of period k in a monthly frame; a record of NaN prices when the
\* frame has none
NoPrices == [open_first |-> NaN, high_max |-> NaN, low_min |-> NaN,
             close_max |-> NaN, close_last |-> NaN]

RecordAt(m, k) ==
    IF \E n \in 1 .. Len(m.rows) : RowKey(m.rows[n]) = k
    THEN m.rows[CHOOSE n \in 1 .. Len(m.rows) : RowKey(m.rows[n]) = k]
    ELSE NoPrices

SamePrices(r, q) ==
    /\ r.open_first = q.open_first
    /\ r.high_max = q.high_max
    /\ r.low_min = q.low_min
    /\ r.close_max = q.close_max
    /\ r.close_last = q.close_last

\* C5 as stated: a bar with no price at all is dropped, so that it is not
\* counted in trading_days, adds nothing to volume_total, and a period with
\* only such bars has no record.
C5_DropsAllNullBars ==
    Called =>
        /\ Len(monthly.rows) = Cardinality(Periods(WithoutAllNull(daily)))
        /\ \A n \in 1 .. Len(monthly.rows) :
              LET r == monthly.rows[n]
                  kept == WithoutAllNull(daily)
                  G == BarsAt(kept, RowKey(r))
              IN  /\ r.trading_days = Cardinality(G)
                  /\ r.volume_total = Num(VolumeOver(kept, G))

\* C5 as amended: a bar with no price at all is kept. It changes none of the
\* five price fields, but it is counted in trading_days and its volume is
\* part of volume_total, and the returned frame carries no count of dropped
\* bars. A bar that lacks only its close is counted in trading_days and
\* changes neither close_max nor close_last.
C5_NullBarsKept ==
    Called =>
        LET priced == MonthlyOf(WithoutAllNull(daily))
            closed == MonthlyOf(WithoutNullClose(daily))
        IN
        /\ monthly.columns \subseteq MonthlyColumns
        /\ \A n \in 1 .. Len(monthly.rows) :
              LET r == monthly.rows[n]
                  G == BarsAt(daily, RowKey(r))
                  q == RecordAt(priced, RowKey(r))
                  c == RecordAt(closed, RowKey(r))
              IN  /\ r.trading_days = Cardinality(G)
                  /\ r.volume_total = Num(VolumeOver(daily, G))
                  /\ SamePrices(r, q)
                  /\ r.close_max = c.close_max
                  /\ r.close_last = c.close_last

\* a period rolled up from a bar with no price, a bar with no close and a
\* bar with all its prices
C5_Witness ==
    /\ Called
    /\ \E i, j, k \in 1 .. Len(daily.rows) :
          /\ AllPricesNull(daily.rows[i])
          /\ OnlyCloseNull(daily.rows[j])
          /\ AllPricesPresent(daily.rows[k])
          /\ PeriodOf(daily.rows[i]) = PeriodOf(daily.rows[k])
          /\ PeriodOf(daily.rows[j]) = PeriodOf(daily.rows[k])
          /\ RecordAt(monthly, PeriodOf(daily.rows[k])).trading_days = 3

\* the DailyBar invariant of the data model: prices positive when present,
\* volume not negative, dates strictly increasing per instrument
DailyBarInvariant(df) ==
    /\ \A i \in 1 .. Len(df.rows) :
          /\ \A col \in {"open", "high", "low", "close"} :
                df.rows[i][col].kind = "num" => df.rows[i][col].v > 0
          /\ df.rows[i].volume.kind = "num" => df.rows[i].volume.v >= 0
    /\ \A i, j \in 1 .. Len(df.rows) :
          (i < j /\ df.rows[i].ticker = df.rows[j].ticker)
              => df.rows[i].date < df.rows[j].date

\* C6 as stated: bars that satisfy the DailyBar invariant give records with
\* high_max >= low_min and high_max >= close_max (where both are present).
C6_HighBoundsFromInvariant ==
    (Called /\ DailyBarInvariant(daily)) =>
        \A n \in 1 .. Len(monthly.rows) :
            LET r == monthly.rows[n] IN
            /\ (r.high_max.kind = "num" /\ r.low_min.kind = "num")
                   => r.high_max.v >= r.low_min.v
            /\ (r.high_max.kind = "num" /\ r.close_max.kind = "num")
                   => r.high_max.v >= r.close_max.v

\* every bar that has a low or a close has a high that is not below them
HighBoundsBar(b) ==
    /\ b.low.kind = "num" => (b.high.kind = "num" /\ b.high.v >= b.low.v)
    /\ b.close.kind = "num" => (b.high.kind = "num" /\ b.high.v >= b.close.v)

\* C6 as amended: bars that satisfy the DailyBar invariant and each have a
\* high that is not below their own low and close give records whose
\* high_max is present and not below low_min and close_max, where those are
\* present.
C6_HighBoundsFromBars ==
    (/\ Called
     /\ DailyBarInvariant(daily)
     /\ \A i \in 1 .. Len(daily.rows) : HighBoundsBar(daily.rows[i])) =>
        \A n \in 1 .. Len(monthly.rows) :
            LET r == monthly.rows[n] IN
            /\ r.low_min.kind = "num"
                   => (r.high_max.kind = "num" /\ r.high_max.v >= r.low_min.v)
            /\ r.close_max.kind = "num"
                   => (r.high_max.kind = "num" /\ r.high_max.v >= r.close_max.v)

\* a rollup of two bars of one period with different highs, in date order
C6_Witness ==
    /\ Called
    /\ DailyBarInvariant(daily)
    /\ \A i \in 1 .. Len(daily.rows) : HighBoundsBar(daily.rows[i])
    /\ \E i, j \in 1 .. Len(daily.rows) :
          /\ PeriodOf(daily.rows[i]) = PeriodOf(daily.rows[j])
          /\ AllPricesPresent(daily.rows[i])
          /\ AllPricesPresent(daily.rows[j])
          /\ daily.rows[i].high # daily.rows[j].high
          /\ RecordAt(monthly, PeriodOf(daily.rows[i])).low_min.kind = "num"

\* C7: a call of aggregate_to_monthly leaves the caller's frame as it was, and
\* a call after the first returns the frame the call before it returned.
C7_IdempotentStateless ==
    [][ /\ daily' = daily
        /\ Called => monthly' = monthly ]_vars

\* a second call on a frame with two periods has returned
C7_Witness ==
    /\ prev_monthly # NoFrame
    /\ monthly = prev_monthly
    /\ Len(monthly.rows) >= 2
    /\ daily.columns = DailyColumns

(***************************************************************************)
(* What a reconciliation is, stated on the two period sets.                *)
(***************************************************************************)
HasReturned == result.status \notin {"idle", "raised"}

\* the (year, month) periods of the instrument's monthly aggregates
OurPeriods ==
    { <<monthly_df[i].year, monthly_df[i].month>> :
        i \in { j \in 1 .. Len(monthly_df) : monthly_df[j].ticker = ticker } }

\* the (year, month) periods of the extracted reference values
RefPeriods ==
    LET ref == LoadExcelMaxClose(variant, grid).rows
    IN  { <<ref[i].year, ref[i].month>> : i \in 1 .. Len(ref) }

\* C8: 'total' is the number of distinct (year, month) periods that occur on
\* both sides, so that no period is compared more than once and a period of
\* one side only is not compared.
C8_TotalIsJoinedPeriods ==
    HasReturned => result.total = Cardinality(OurPeriods \cap RefPeriods)

\* C9: when the extracted reference values and the instrument's aggregates
\* share no period, validate_ticker returns the verdict NO_OVERLAP with
\* matches = 0 and total = 0 and computes no ratio.
C9_NoOverlapVerdict ==
    (/\ result.status # "idle"
     /\ ~LoadExcelMaxClose(variant, grid).raised
     /\ OurPeriods \cap RefPeriods = {}) =>
        /\ result.status = "NO_OVERLAP"
        /\ result.matches = 0
        /\ result.total = 0
        /\ "match_pct" \notin result.keys

\* C10: when every joined period has the reference value zero, the matches
\* validate_ticker counts are the joined periods whose computed value is
\* zero too.
C10_ZeroReference ==
    LET merged == MergedOf(variant, ticker, grid, monthly_df) IN
    (/\ HasReturned
     /\ merged # <<>>
     /\ \A i \in 1 .. Len(merged) : merged[i].close_max_excel = 0) =>
        result.matches =
            Cardinality({ i \in 1 .. Len(merged) : merged[i].close_max = Num(0) })

(***************************************************************************)
(* What the classification of a joined period is, stated on the two        *)
(* values of the period.                                                   *)
(***************************************************************************)
\* the joined periods of the call, each with its two values
JoinedRows == MergedOf(variant, ticker, grid, monthly_df)

\* |computed - reference| / |reference| is strictly below tol percent, the
\* reference not being zero
RelDiffBelow(row, tol) ==
    Abs(row.close_max.v - row.close_max_excel) * 100 * tol[2]
        < tol[1] * Abs(row.close_max_excel)

\* C11: a joined period counts as a match iff |computed - reference| /
\* |reference| is strictly less than the tolerance, the difference being
\* taken against the absolute value of the reference (stated for the calls
\* whose joined periods all have a reference other than zero).
C11_MatchIffStrictlyBelow ==
    LET merged == JoinedRows IN
    (/\ HasReturned
     /\ merged # <<>>
     /\ \A i \in 1 .. Len(merged) : merged[i].close_max_excel # 0) =>
        result.matches =
            Cardinality({ i \in 1 .. Len(merged) :
                            RelDiffBelow(merged[i], TolerancePct(variant)) })

\* C12: when at least one period is compared the verdict is PASS iff
\* matches / total reaches the pass threshold and FAIL otherwise, and every
\* verdict is one of PASS, FAIL, NO_OVERLAP.
C12_VerdictVocabulary ==
    HasReturned =>
        /\ result.status \in {"PASS", "FAIL", "NO_OVERLAP"}
        /\ result.total > 0 =>
              /\ result.status = "PASS" <=>
                    result.matches * 100 >= PassPct(variant) * result.total
              /\ result.status # "PASS" => result.status = "FAIL"

\* the keys of the dict validate_ticker returns when it compared a period
CountKeys == {"ticker", "status", "matches", "total", "match_pct"}

\* C13: every joined period that is not a match is kept in the result as a
\* mismatch, with its year, month, two values and relative difference: the
\* result has a field for them, and matches plus mismatches is the number of
\* compared periods.
C13_MismatchesRetained ==
    (HasReturned /\ result.total > 0) =>
        /\ result.keys \ CountKeys # {}
        /\ result.matches
             + Len(MismatchesOf(JoinedRows, TolerancePct(variant)))
           = result.total

\* the tolerances (in percent) and pass thresholds the callers of the
\* repository work with
CallerTolerances == { TolerancePct("full"), TolerancePct("correct"), <<2, 1>> }
CallerThresholds == { PassPct("correct"), PassPct("full") }

\* C14: the tolerance and the pass threshold are inputs: whichever tolerance
\* and threshold the caller works with, the matches counted are the joined
\* periods below that tolerance and the verdict is PASS iff the ratio
\* reaches that threshold.
C14_ToleranceIsInput ==
    (HasReturned /\ result.total > 0) =>
        \A tol \in CallerTolerances : \A pass \in CallerThresholds :
            /\ result.matches = CountMatches(JoinedRows, tol)
            /\ result.status = "PASS" <=>
                   result.matches * 100 >= pass * result.total

\* C15: validate_ticker never ends in an exception, whatever the sheet and
\* the monthly frame.
C15_NeverRaises == result.status # "raised"

(***************************************************************************)
(* What a year row yields, stated on the cells of the row.                 *)
(***************************************************************************)
\* the year rows the scan has gone through
ScannedYearRows == { i \in YearRowIndexes(grid) : i < idx }

\* cell m of row i is there and holds a number
CellIsNumeric(g, i, m) == m < NCols(g) /\ Rows(g)[i][m].kind = "num"

\* C16: for every year row scanned and every month m of 1..12 a record is
\* emitted iff cell m of the row is present and numeric, with the value of
\* the cell; a missing or non-numeric cell yields no record and neither
\* stops the scan of the cells and rows after it nor makes it fail.
C16_EmitsIffNumeric ==
    LET cells == { p \in ScannedYearRows \X (1 .. NumMonths) :
                     CellIsNumeric(grid, p[1], p[2]) }
    IN  /\ scan_pc # "raised"
        /\ scan_pc \in {"scan", "returned"} =>
              /\ SeqRange(data_rows) = { CellEntry(grid, p) : p \in cells }
              /\ Len(data_rows) = Cardinality(cells)

(***************************************************************************)
(* What the table holds after a run, stated on the rows written.           *)
(***************************************************************************)
AggregateFields ==
    {"close_max", "open_first", "high_max", "low_min", "close_last",
     "volume_total", "trading_days"}

SameAggregates(s, r) == \A f \in AggregateFields : s[f] = r[f]

WrittenKeys(rows) == { StoreKey(rows[i]) : i \in 1 .. Len(rows) }

OneRowPerKey(tbl) == \A a, b \in tbl : StoreKey(a) = StoreKey(b) => a = b

\* C17: the table holds at most one row per (ticker, year, month); a
\* committed write leaves, for each key it wrote, a row with the aggregate
\* fields of that write, and leaves the rows of every other key as they
\* were; a ticker that is not committed changes nothing. So each row has
\* the fields of the most recent committed write of its key.
C17_LastWriteWins ==
    [][ /\ OneRowPerKey(store')
        /\ load_status' = "committed" =>
              /\ \A i \in 1 .. Len(load_rows') :
                    \E s \in store' :
                        /\ StoreKey(s) = StoreKey(load_rows'[i])
                        /\ SameAggregates(s, load_rows'[i])
              /\ \A s \in store \cup store' :
                    StoreKey(s) \notin WrittenKeys(load_rows') =>
                        s \in store \cap store'
        /\ load_status' # "committed" => store' = store ]_vars

\* a committed write that went over a row the table already had, with a row
\* of another ticker in the table
C17_Witness ==
    /\ load_status = "committed"
    /\ \E s, o \in store :
          /\ s.updated_at = "now"
          /\ StoreKey(s) \in WrittenKeys(load_rows)
          /\ StoreKey(o) \notin WrittenKeys(load_rows)
          /\ o.ticker # s.ticker

\* C18: a rollup of an empty collection of daily bars returns, and what it
\* returns has no monthly record.
C18_EmptyInEmptyOut ==
    (Called /\ Len(daily.rows) = 0) => Len(monthly.rows) = 0

\* the rollup was called on a frame without bars, with or without columns
C18_Witness ==
    /\ Called
    /\ Len(daily.rows) = 0
    /\ monthly = EmptyFrame

(***************************************************************************)
(* The two rollups side by side.                                           *)
(***************************************************************************)
\* fetch_and_load_prices went through the ticker without an error
Loaded == load_status \in {"committed", "no data"}

\* C19: on the same bars of one ticker, null price fields included, the
\* monthly records of aggregate_to_monthly and the rows fetch_and_load_prices
\* prepares have the same keys in the same order and the same open_first,
\* high_max, low_min, close_max, close_last, volume_total and trading days.
C19_RollupsAgree ==
    (Called /\ Loaded) =>
        /\ Len(monthly.rows) = Len(load_rows)
        /\ \A i \in 1 .. Len(load_rows) :
              /\ RowKey(monthly.rows[i]) = StoreKey(load_rows[i])
              /\ SameAggregates(monthly.rows[i], load_rows[i])

\* both rollups ran on a frame of two months in which a bar has no price at
\* all, a bar has no close, and a bar has every price
C19_Witness ==
    /\ Called
    /\ load_status = "committed"
    /\ Len(load_rows) = 2
    /\ \E i, j, k \in 1 .. Len(daily.rows) :
          /\ AllPricesNull(daily.rows[i])
          /\ OnlyCloseNull(daily.rows[j])
          /\ AllPricesPresent(daily.rows[k])

(***************************************************************************)
(* The phases of the scan: before the section, in the section, done.       *)
(***************************************************************************)
\* the scan is at a row it has yet to read
AtRow == scan_pc = "scan" /\ idx <= Len(Rows(grid))

\* the numeric month cells of the row the scan is at
CellsAtRow ==
    { p \in {idx} \X (1 .. NumMonths) : CellIsNumeric(grid, p[1], p[2]) }

\* the step reads the row and goes on to the next one with the same records
SkipsRow ==
    /\ scan_pc' = "scan"
    /\ idx' = idx + 1
    /\ data_rows' = data_rows
    /\ in_data_section' = in_data_section

\* C20: the scan has three phases. Before the section a 'Grand Total' row
\* is passed over like any other row that is not a year row, and a year row
\* enters the section and has its numeric cells appended; in the section a
\* row that is neither a year row nor the terminator is passed over and the
\* section is never left; the first 'Grand Total' row in the section ends
\* the scan with the records gathered so far, and once the scan is done no
\* row is read and the records do not change. (A year row whose month
\* columns cannot all be read enters the section and ends the scan in an
\* exception.)
C20_ThreePhases ==
    [][ /\ (AtRow /\ ~in_data_section /\ ~IsYearCell(CurrentRow[0])) => SkipsRow
        /\ (AtRow /\ IsYearCell(CurrentRow[0])) =>
              /\ in_data_section'
              /\ scan_pc' = "scan" =>
                    /\ idx' = idx + 1
                    /\ SubSeq(data_rows', 1, Len(data_rows)) = data_rows
                    /\ SeqRange(SubSeq(data_rows', Len(data_rows) + 1,
                                       Len(data_rows')))
                         = { CellEntry(grid, p) : p \in CellsAtRow }
                    /\ Len(data_rows') = Len(data_rows) + Cardinality(CellsAtRow)
        /\ (AtRow /\ in_data_section /\ ~IsYearCell(CurrentRow[0])
                  /\ ~IsTerminatorCell(CurrentRow[0])) => SkipsRow
        /\ (AtRow /\ in_data_section /\ IsTerminatorCell(CurrentRow[0])) =>
              /\ scan_pc' = "returned"
              /\ data_rows' = data_rows
        /\ in_data_section => in_data_section'
        /\ scan_pc = "returned" =>
              /\ scan_pc' = "returned"
              /\ idx' = idx
              /\ data_rows' = data_rows ]_vars

\* a scan that passed a 'Grand Total' row before the section, extracted the
\* year row after it and ended at the 'Grand Total' row that follows
C20_Witness ==
    /\ scan_pc = "returned"
    /\ idx = 3
    /\ Len(Rows(grid)) >= 3
    /\ IsTerminatorCell(Rows(grid)[1][0])
    /\ IsYearCell(Rows(grid)[2][0])
    /\ IsTerminatorCell(Rows(grid)[3][0])
    /\ data_rows # <<>>

=============================================================================
